---- MODULE Spec2Model ----
(***************************************************************************)
(* GregoBaseExtract: the INSERT statement recognizer (iter_insert_chunks,  *)
(* _split_insert), the VALUES tuple tokenizer (parse_values_blob), the CSV *)
(* row normalization of extract_table (scripts/extract_tables.py) and the  *)
(* chant/source join of scripts/unify_chants.py.                           *)
(*                                                                         *)
(* Python strings are modelled as sequences of one-character strings, so   *)
(* that every index, slice, strip and case conversion of the source is     *)
(* computed character by character.  Indices keep the source's 0-based     *)
(* values; s[k + 1] is Python's s[k].                                      *)
(***************************************************************************)
EXTENDS Integers, Sequences, FiniteSets, TLC

VARIABLES
    \* parse_values_blob
    blob, i, rows, cur_row, cur, depth, in_str, tpc,
    \* iter_insert_chunks
    fp, lineno, acc, capturing, chunk, cols, values, gpc, yielded,
    \* extract_table
    wrote_header, header, ext_rows, out, epc,
    \* unify_chants.main
    csv, chants, sources, chant_sources, sources_by_id, sources_by_chant,
    out_dir, out_open, out_lines, raised, upc, k

tokVars == <<blob, i, rows, cur_row, cur, depth, in_str, tpc>>
genVars == <<fp, lineno, acc, capturing, chunk, cols, values, gpc, yielded>>
extVars == <<wrote_header, header, ext_rows, out, epc>>
uniVars == <<csv, chants, sources, chant_sources, sources_by_id,
             sources_by_chant, out_dir, out_open, out_lines, raised, upc, k>>
vars == <<tokVars, genVars, extVars, uniVars>>

-----------------------------------------------------------------------------
(* Bounds of the model.                                                    *)

MaxBlobLen == 5
MaxLines == 3
MaxRows == 2
MaxFairLen == 4

-----------------------------------------------------------------------------
(* Python str helpers.                                                     *)

Chars(s) == [p \in 1..Len(s) |-> SubSeq(s, p, p)]

\* Python's None and a value that is not None: an optional value is the empty
\* sequence or the one-element sequence of the value.
None == <<>>

Some(v) == <<v>>

Value(opt) == opt[1]

\* The characters str.strip() removes when called without an argument.
Whitespace == {" ", "\t", "\n", "\r", "\f"}

RECURSIVE RStripSet(_, _)
RStripSet(s, set) ==
    IF s # <<>> /\ s[Len(s)] \in set
    THEN RStripSet(SubSeq(s, 1, Len(s) - 1), set)
    ELSE s

RECURSIVE LStripSet(_, _)
LStripSet(s, set) ==
    IF s # <<>> /\ s[1] \in set THEN LStripSet(Tail(s), set) ELSE s

StripSet(s, set) == LStripSet(RStripSet(s, set), set)

Strip(s) == StripSet(s, Whitespace)

LowerLetters == Chars("abcdefghijklmnopqrstuvwxyz")
UpperLetters == Chars("ABCDEFGHIJKLMNOPQRSTUVWXYZ")

UpperChar(c) ==
    IF \E p \in 1..26 : LowerLetters[p] = c
    THEN UpperLetters[CHOOSE p \in 1..26 : LowerLetters[p] = c]
    ELSE c

\* The letter sharp s (U+00DF), written $ here: one of the characters whose
\* upper case is longer than the character, here the two letters SS.
SharpS == "$"

\* str.upper: the upper case of every character, in order.
RECURSIVE Upper(_)
Upper(s) ==
    IF s = <<>> THEN <<>>
    ELSE (IF Head(s) = SharpS THEN <<"S", "S">> ELSE <<UpperChar(Head(s))>>)
             \o Upper(Tail(s))

StartsWith(s, pre) == Len(s) >= Len(pre) /\ SubSeq(s, 1, Len(pre)) = pre

EndsWith(s, suf) ==
    Len(s) >= Len(suf) /\ SubSeq(s, Len(s) - Len(suf) + 1, Len(s)) = suf

\* s[from:], 0-based.
From(s, from) == SubSeq(s, from + 1, Len(s))

\* Whether sub occurs in s at the 0-based index p.
HasAt(s, sub, p) ==
    /\ p + Len(sub) <= Len(s)
    /\ \A q \in 1..Len(sub) : s[p + q] = sub[q]

\* s.find(sub, start): the lowest 0-based index from start on where sub occurs
\* in s, or -1.  s.index(sub, start) raises ValueError where this gives -1.
RECURSIVE FindFrom(_, _, _)
FindFrom(s, sub, start) ==
    IF start + Len(sub) > Len(s) THEN -1
    ELSE IF HasAt(s, sub, start) THEN start
    ELSE FindFrom(s, sub, start + 1)

Find(s, sub) == FindFrom(s, sub, 0)

RECURSIVE Join(_, _)
Join(sep, parts) ==
    IF parts = <<>> THEN <<>>
    ELSE IF Len(parts) = 1 THEN parts[1]
    ELSE parts[1] \o sep \o Join(sep, Tail(parts))

RECURSIVE SplitOn(_, _)
SplitOn(s, sep) ==
    LET p == Find(s, <<sep>>)
    IN  IF p < 0 THEN <<s>>
        ELSE <<SubSeq(s, 1, p)>> \o SplitOn(From(s, p + 1), sep)

-----------------------------------------------------------------------------
(* parse_values_blob: the tuple tokenizer.                                 *)

sql_token_to_text(token) ==
    IF Upper(token) = Chars("NULL") THEN <<>> ELSE token

\* A tokenizer that appends the second character of every backslash pair as
\* it is.
EscapeMap_Identity(esc) == esc

\* mapping.get(esc, esc); the entries for ', " and \ map each to itself.
EscapeMap(esc) ==
    CASE esc = "n" -> "\n"
      [] esc = "r" -> "\r"
      [] esc = "t" -> "\t"
      [] OTHER -> esc

TokInitState ==
    [i |-> 0, rows |-> <<>>, cur_row |-> <<>>, cur |-> <<>>, depth |-> 0,
     in_str |-> FALSE]

Ch(s, b) == b[s.i + 1]

Nxt(s, b) == IF s.i + 1 < Len(b) THEN b[s.i + 2] ELSE ""

\* The token "".join(cur).strip() decoded by sql_token_to_text.
FinalizeField(s) == sql_token_to_text(Strip(s.cur))

\* A tokenizer without backslash pairs: the backslash is one more character.
StepEscape_NoPair(s, b) == [s EXCEPT !.cur = Append(@, "\\"), !.i = @ + 1]

\* A tokenizer that steps over two characters at every backslash in a string.
StepEscape_Unguarded(s, b) ==
    IF s.i + 1 < Len(b)
    THEN [s EXCEPT !.cur = Append(@, EscapeMap(b[s.i + 2])), !.i = @ + 2]
    ELSE [s EXCEPT !.cur = Append(@, "\\"), !.i = @ + 2]

StepEscape(s, b) ==
    IF s.i + 1 < Len(b)
    THEN [s EXCEPT !.cur = Append(@, EscapeMap(b[s.i + 2])), !.i = @ + 2]
    ELSE [s EXCEPT !.cur = Append(@, "\\"), !.i = @ + 1]

\* A tokenizer without the doubled quote: every quote in a string ends it.
StepQuoteInString_NoDoubled(s, b) == [s EXCEPT !.in_str = FALSE, !.i = @ + 1]

StepQuoteInString(s, b) ==
    IF Nxt(s, b) = "'"
    THEN [s EXCEPT !.cur = Append(@, "'"), !.i = @ + 2]
    ELSE [s EXCEPT !.in_str = FALSE, !.i = @ + 1]

StepInString(s, b) ==
    IF Ch(s, b) = "\\" THEN StepEscape(s, b)
    ELSE IF Ch(s, b) = "'" THEN StepQuoteInString(s, b)
    ELSE [s EXCEPT !.cur = Append(@, Ch(s, b)), !.i = @ + 1]

StepOpenQuote(s) == [s EXCEPT !.in_str = TRUE, !.i = @ + 1]

\* A tokenizer whose top-level ( keeps the text read before it.
StepOpenParen_NoReset(s) ==
    IF s.depth = 0
    THEN [s EXCEPT !.cur_row = <<>>, !.depth = @ + 1, !.i = @ + 1]
    ELSE [s EXCEPT !.cur = Append(@, "("), !.depth = @ + 1, !.i = @ + 1]

\* A tokenizer that counts only the top-level (.
StepOpenParen_NoNestedIncrement(s) ==
    IF s.depth = 0
    THEN [s EXCEPT !.cur_row = <<>>, !.cur = <<>>, !.depth = @ + 1, !.i = @ + 1]
    ELSE [s EXCEPT !.cur = Append(@, "("), !.i = @ + 1]

StepOpenParen(s) ==
    IF s.depth = 0
    THEN [s EXCEPT !.cur_row = <<>>, !.cur = <<>>, !.depth = @ + 1, !.i = @ + 1]
    ELSE [s EXCEPT !.cur = Append(@, "("), !.depth = @ + 1, !.i = @ + 1]

\* A tokenizer whose closing ) adds no field for an empty text.
StepCloseParen_SkipEmpty(s) ==
    IF s.depth - 1 = 0
    THEN [s EXCEPT !.depth = 0,
                   !.rows = Append(@, IF Strip(s.cur) = <<>> THEN s.cur_row
                                      ELSE Append(s.cur_row, FinalizeField(s))),
                   !.cur = <<>>, !.cur_row = <<>>, !.i = @ + 1]
    ELSE [s EXCEPT !.depth = @ - 1, !.cur = Append(@, ")"), !.i = @ + 1]

\* A tokenizer whose closing ) starts the result again from its own row.
StepCloseParen_Replace(s) ==
    IF s.depth - 1 = 0
    THEN [s EXCEPT !.depth = 0,
                   !.rows = <<Append(s.cur_row, FinalizeField(s))>>,
                   !.cur = <<>>, !.cur_row = <<>>, !.i = @ + 1]
    ELSE [s EXCEPT !.depth = @ - 1, !.cur = Append(@, ")"), !.i = @ + 1]

StepCloseParen(s) ==
    IF s.depth - 1 = 0
    THEN [s EXCEPT !.depth = 0,
                   !.rows = Append(@, Append(s.cur_row, FinalizeField(s))),
                   !.cur = <<>>, !.cur_row = <<>>, !.i = @ + 1]
    ELSE [s EXCEPT !.depth = @ - 1, !.cur = Append(@, ")"), !.i = @ + 1]

StepComma(s) ==
    [s EXCEPT !.cur_row = Append(@, FinalizeField(s)), !.cur = <<>>, !.i = @ + 1]

StepSemicolon(s) == [s EXCEPT !.i = @ + 1]

StepOther(s, b) == [s EXCEPT !.cur = Append(@, Ch(s, b)), !.i = @ + 1]

\* A tokenizer that tests the separators before it tests in_str.
Branch_SeparatorsFirst(s, b) ==
    IF Ch(s, b) = "," /\ s.depth = 1 THEN "comma"
    ELSE IF ~s.in_str /\ Ch(s, b) = ")" THEN "close"
    ELSE IF s.in_str THEN "in_str"
    ELSE IF Ch(s, b) = "'" THEN "quote"
    ELSE IF Ch(s, b) = "(" THEN "open"
    ELSE IF Ch(s, b) = ";" /\ s.depth = 0 THEN "semi"
    ELSE "other"

\* Which branch of the loop body the iteration at s.i takes.
Branch(s, b) ==
    IF s.in_str THEN "in_str"
    ELSE IF Ch(s, b) = "'" THEN "quote"
    ELSE IF Ch(s, b) = "(" THEN "open"
    ELSE IF Ch(s, b) = ")" THEN "close"
    ELSE IF Ch(s, b) = "," /\ s.depth = 1 THEN "comma"
    ELSE IF Ch(s, b) = ";" /\ s.depth = 0 THEN "semi"
    ELSE "other"

\* One iteration of the while loop.
TokStep(s, b) ==
    CASE Branch(s, b) = "in_str" -> StepInString(s, b)
      [] Branch(s, b) = "quote" -> StepOpenQuote(s)
      [] Branch(s, b) = "open" -> StepOpenParen(s)
      [] Branch(s, b) = "close" -> StepCloseParen(s)
      [] Branch(s, b) = "comma" -> StepComma(s)
      [] Branch(s, b) = "semi" -> StepSemicolon(s)
      [] OTHER -> StepOther(s, b)

RECURSIVE TokRun(_, _)
TokRun(s, b) == IF s.i < Len(b) THEN TokRun(TokStep(s, b), b) ELSE s.rows

parse_values_blob(b) == TokRun(TokInitState, b)

-----------------------------------------------------------------------------
(* The tokenizer as a state machine: one action per branch of the loop.    *)

TokAlphabet == {"(", ")", ",", ";", "'", "\\", "a"}

ExampleBlobs ==
    { Chars("('a','b,c',NULL,123)"),
      Chars("('it''s','line1\nline2')"),
      Chars("('it''s','line1\\nline2')"),
      Chars("('a\\'s'),('b')"),
      Chars("('a\\\\'s'),('b')"),
      Chars("(NULL)"), Chars("(null,1)"), Chars("( NuLl )"), Chars("('NULL')"),
      Chars("('null')"), Chars("('abc')"), Chars("('12')"), Chars("(NULLS,'')"), Chars("(' a ',\\N)"),
      Chars("('(',')',',;')"), Chars("(1,(2,3)),(4);"),
      Chars("('x\\ry\\tz\\n\\q')") }

BlobSet ==
    ExampleBlobs \cup UNION {[1..len -> TokAlphabet] : len \in 0..MaxBlobLen}

TokState ==
    [i |-> i, rows |-> rows, cur_row |-> cur_row, cur |-> cur, depth |-> depth,
     in_str |-> in_str]

SetTok(s) ==
    /\ i' = s.i
    /\ rows' = s.rows
    /\ cur_row' = s.cur_row
    /\ cur' = s.cur
    /\ depth' = s.depth
    /\ in_str' = s.in_str

TokStart ==
    /\ i = TokInitState.i
    /\ rows = TokInitState.rows
    /\ cur_row = TokInitState.cur_row
    /\ cur = TokInitState.cur
    /\ depth = TokInitState.depth
    /\ in_str = TokInitState.in_str

TokIdle ==
    /\ blob = <<>>
    /\ TokStart
    /\ tpc = "off"

TokEnabled(br) ==
    /\ tpc = "scan"
    /\ i < Len(blob)
    /\ Branch(TokState, blob) = br

TokApply ==
    /\ SetTok(TokStep(TokState, blob))
    /\ UNCHANGED <<blob, tpc, genVars, extVars, uniVars>>

TokInString ==
    /\ TokEnabled("in_str")
    /\ TokApply

TokOpenQuote ==
    /\ TokEnabled("quote")
    /\ TokApply

TokOpenParen ==
    /\ TokEnabled("open")
    /\ TokApply

TokCloseParen ==
    /\ TokEnabled("close")
    /\ TokApply

TokComma ==
    /\ TokEnabled("comma")
    /\ TokApply

TokSemicolon ==
    /\ TokEnabled("semi")
    /\ TokApply

TokOther ==
    /\ TokEnabled("other")
    /\ TokApply

TokReturn ==
    /\ tpc = "scan"
    /\ i >= Len(blob)
    /\ tpc' = "done"
    /\ UNCHANGED <<blob, i, rows, cur_row, cur, depth, in_str, genVars, extVars,
                   uniVars>>

GenIdle ==
    /\ fp = <<>>
    /\ lineno = 0
    /\ acc = <<>>
    /\ capturing = FALSE
    /\ chunk = None
    /\ cols = None
    /\ values = None
    /\ gpc = "off"
    /\ yielded = <<>>

ExtIdle ==
    /\ wrote_header = FALSE
    /\ header = <<>>
    /\ ext_rows = <<>>
    /\ out = <<>>
    /\ epc = "off"

UniIdle ==
    /\ csv = <<>>
    /\ chants = <<>>
    /\ sources = <<>>
    /\ chant_sources = <<>>
    /\ sources_by_id = <<>>
    /\ sources_by_chant = <<>>
    /\ out_dir = FALSE
    /\ out_open = FALSE
    /\ out_lines = <<>>
    /\ raised = None
    /\ upc = "off"
    /\ k = 0

InitTok ==
    /\ blob \in BlobSet
    /\ TokStart
    /\ tpc = "scan"
    /\ GenIdle
    /\ ExtIdle
    /\ UniIdle

NextTok ==
    \/ TokInString
    \/ TokOpenQuote
    \/ TokOpenParen
    \/ TokCloseParen
    \/ TokComma
    \/ TokSemicolon
    \/ TokOther
    \/ TokReturn

SpecTok == InitTok /\ [][NextTok]_vars

FairBlobSet ==
    ExampleBlobs \cup UNION {[1..len -> TokAlphabet] : len \in 0..MaxFairLen}

InitTokFair ==
    /\ blob \in FairBlobSet
    /\ TokStart
    /\ tpc = "scan"
    /\ GenIdle
    /\ ExtIdle
    /\ UniIdle

\* The scan as a running program: the loop goes on as long as an iteration
\* or the return is possible.
SpecTokFair == InitTokFair /\ [][NextTok]_vars /\ WF_vars(NextTok)

-----------------------------------------------------------------------------
(* _split_insert and iter_insert_chunks: the statement recognizer.         *)

\* The backtick character (U+0060).  A TLA+ string literal cannot hold it; the
\* model writes it ~, a character the modelled dumps do not otherwise use.
Backtick == "~"

table == Chars("t")

\* prefix = f"INSERT INTO (backtick){table}(backtick)"
prefix == Chars("INSERT INTO ") \o <<Backtick>> \o table \o <<Backtick>>

NoSplit == [cols |-> None, values |-> None]

\* [c.strip().strip(backtick) for c in cols_str.split(",")]
ColumnNames(cols_str) ==
    LET parts == SplitOn(cols_str, ",")
    IN  [p \in 1..Len(parts) |-> StripSet(Strip(parts[p]), {Backtick})]

\* rest[idx_vals + len(kw):].rstrip(";\n\r ")
ValuesBlob(rest, idx_vals) ==
    RStripSet(From(rest, idx_vals + Len(Chars("VALUES"))), {";", "\n", "\r", " "})

\* chunk.index raises ValueError when the parenthesis is missing; the except
\* clause returns (None, None).
split_insert(c) ==
    LET pos_open == Find(c, <<"(">>)
    IN  IF pos_open < 0 THEN NoSplit
        ELSE LET pos_close == FindFrom(c, <<")">>, pos_open + 1)
             IN  IF pos_close < 0 THEN NoSplit
                 ELSE LET cols_str == SubSeq(c, pos_open + 2, pos_close)
                          rest == From(c, pos_close + 1)
                          idx_vals == Find(Upper(rest), Chars("VALUES"))
                      IN  IF idx_vals < 0 THEN NoSplit
                          ELSE [cols |-> Some(ColumnNames(cols_str)),
                                values |-> Some(ValuesBlob(rest, idx_vals))]

\* line = raw.rstrip("\n")
Line == RStripSet(fp[lineno + 1], {"\n"})

\* line.strip().endswith(";")
EndsStatement(line) == EndsWith(Strip(line), <<";">>)

Splits(r) == r.cols # None /\ r.values # None

\* A recognizer that gives up at the first statement it cannot split.
Complete_StopOnFailure(lines, site) ==
    LET c == Join(<<"\n">>, lines)
        r == split_insert(c)
    IN  /\ chunk' = Some(c)
        /\ cols' = r.cols
        /\ values' = r.values
        /\ IF Splits(r)
           THEN /\ yielded' = Append(yielded, [cols |-> Value(r.cols),
                                               values |-> Value(r.values)])
                /\ gpc' = site
                /\ acc' = lines
                /\ UNCHANGED capturing
           ELSE /\ gpc' = "done"
                /\ UNCHANGED <<acc, capturing, yielded>>

\* chunk = "\n".join(acc); cols, values = _split_insert(chunk); the generator
\* is suspended at its yield when the split gave a pair.
Complete(lines, site) ==
    LET c == Join(<<"\n">>, lines)
        r == split_insert(c)
    IN  /\ chunk' = Some(c)
        /\ cols' = r.cols
        /\ values' = r.values
        /\ IF Splits(r)
           THEN /\ yielded' = Append(yielded, [cols |-> Value(r.cols),
                                               values |-> Value(r.values)])
                /\ gpc' = site
                /\ acc' = lines
                /\ UNCHANGED capturing
           ELSE /\ acc' = <<>>
                /\ capturing' = FALSE
                /\ UNCHANGED <<yielded, gpc>>

Reading == gpc = "scan" /\ lineno < Len(fp)

\* Not capturing, and the line does not start with the prefix.
GenSkip ==
    /\ Reading
    /\ ~capturing
    /\ ~StartsWith(Line, prefix)
    /\ lineno' = lineno + 1
    /\ UNCHANGED <<fp, acc, capturing, chunk, cols, values, gpc, yielded>>
    /\ UNCHANGED <<tokVars, extVars, uniVars>>

\* Not capturing, a prefix line that does not end the statement.
GenOpen ==
    /\ Reading
    /\ ~capturing
    /\ StartsWith(Line, prefix)
    /\ ~EndsStatement(Line)
    /\ acc' = <<Line>>
    /\ capturing' = TRUE
    /\ lineno' = lineno + 1
    /\ UNCHANGED <<fp, chunk, cols, values, gpc, yielded>>
    /\ UNCHANGED <<tokVars, extVars, uniVars>>

\* Not capturing, a prefix line that ends the statement.
GenSingle ==
    /\ Reading
    /\ ~capturing
    /\ StartsWith(Line, prefix)
    /\ EndsStatement(Line)
    /\ Complete(<<Line>>, "yield55")
    /\ lineno' = lineno + 1
    /\ UNCHANGED <<fp, tokVars, extVars, uniVars>>

\* Capturing, a line that does not end the statement.
GenAppend ==
    /\ Reading
    /\ capturing
    /\ ~EndsStatement(Line)
    /\ acc' = Append(acc, Line)
    /\ lineno' = lineno + 1
    /\ UNCHANGED <<fp, capturing, chunk, cols, values, gpc, yielded>>
    /\ UNCHANGED <<tokVars, extVars, uniVars>>

\* Capturing, a line that ends the statement.
GenClose ==
    /\ Reading
    /\ capturing
    /\ EndsStatement(Line)
    /\ Complete(Append(acc, Line), "yield66")
    /\ lineno' = lineno + 1
    /\ UNCHANGED <<fp, tokVars, extVars, uniVars>>

\* A recognizer that stays in capture after it yielded a statement.
Resume_KeepCapturing ==
    /\ gpc \in {"yield55", "yield66"}
    /\ acc' = <<>>
    /\ gpc' = "scan"
    /\ UNCHANGED <<fp, lineno, capturing, chunk, cols, values, yielded>>

\* The generator runs on after a yield: acc = [] and, at line 68,
\* capturing = False.
Resume ==
    /\ gpc \in {"yield55", "yield66"}
    /\ acc' = <<>>
    /\ capturing' = IF gpc = "yield66" THEN FALSE ELSE capturing
    /\ gpc' = "scan"
    /\ UNCHANGED <<fp, lineno, chunk, cols, values, yielded>>

\* The consumer asks for the next pair.
GenResume ==
    /\ Resume
    /\ UNCHANGED <<tokVars, extVars, uniVars>>

\* A recognizer that yields the open statement when the stream ends.
GenReturn_Flush ==
    /\ gpc = "scan"
    /\ lineno = Len(fp)
    /\ gpc' = "done"
    /\ yielded' = IF capturing /\ Splits(split_insert(Join(<<"\n">>, acc)))
                  THEN Append(yielded,
                         [cols |-> Value(split_insert(Join(<<"\n">>, acc)).cols),
                          values |-> Value(split_insert(Join(<<"\n">>, acc)).values)])
                  ELSE yielded
    /\ UNCHANGED <<fp, lineno, acc, capturing, chunk, cols, values>>
    /\ UNCHANGED <<tokVars, extVars, uniVars>>

\* The stream is exhausted: the generator returns.
GenReturn ==
    /\ gpc = "scan"
    /\ lineno = Len(fp)
    /\ gpc' = "done"
    /\ UNCHANGED <<fp, lineno, acc, capturing, chunk, cols, values, yielded>>
    /\ UNCHANGED <<tokVars, extVars, uniVars>>

DumpLines ==
    { Chars("INSERT INTO ~t~ (~a~, b) VALUES (1,'x'),(2);\n"),
      Chars("INSERT INTO ~t~ (a) VALUES\n"),
      Chars("(1,2),\n"),
      Chars("('p;q');  \n"),
      Chars("INSERT INTO ~u~ (z) VALUES (9);\n"),
      Chars("INSERT INTO ~t~ VALUES (1);\n"),
      Chars("INSERT INTO ~t~ (a) VALUES ('x;\n"),
      Chars("INSERT INTO ~t~ SELECT 1;\n"),
      Chars("INSERT INTO ~t~ (a;\n"),
      Chars("INSERT INTO ~t~ (c,d,e) values (7,8,9,0);\n"),
      Chars("INSERT INTO ~t~ (a) /*$$*/ VALUES (3);\n") }

Dumps == UNION {[1..len -> DumpLines] : len \in 0..MaxLines}

GenStart ==
    /\ lineno = 0
    /\ acc = <<>>
    /\ capturing = FALSE
    /\ chunk = None
    /\ cols = None
    /\ values = None
    /\ yielded = <<>>

InitRec ==
    /\ fp \in Dumps
    /\ GenStart
    /\ gpc = "scan"
    /\ TokIdle
    /\ ExtIdle
    /\ UniIdle

NextRec ==
    \/ GenSkip
    \/ GenOpen
    \/ GenSingle
    \/ GenAppend
    \/ GenClose
    \/ GenResume
    \/ GenReturn

SpecRec == InitRec /\ [][NextRec]_vars

-----------------------------------------------------------------------------
(* extract_table: the consumer of iter_insert_chunks.  out is the sequence *)
(* of rows handed to writer.writerow, the header row included.             *)

\* A writer that leaves a short row short.
NormalizeRow_NoPad(row, hdr) ==
    IF Len(row) > Len(hdr) THEN SubSeq(row, 1, Len(hdr)) ELSE row

\* Lines 208-212: the row as it is written under a header hdr.
NormalizeRow(row, hdr) ==
    IF Len(row) # Len(hdr)
    THEN IF Len(row) < Len(hdr)
         THEN row \o [p \in 1..(Len(hdr) - Len(row)) |-> <<>>]
         ELSE SubSeq(row, 1, Len(hdr))
    ELSE row

\* What the output file held before the run.
StaleOutputs == {<<>>, << <<Chars("old")>> >>}

\* Lines 192-200: the output file is opened for writing, which empties it, and
\* the generator is created.
ExtOpen ==
    /\ epc = "start"
    /\ out' = <<>>
    /\ epc' = "wait"
    /\ gpc' = "scan"
    /\ UNCHANGED <<fp, lineno, acc, capturing, chunk, cols, values, yielded>>
    /\ UNCHANGED <<wrote_header, header, ext_rows, tokVars, uniVars>>

\* A consumer that takes the column list of every statement as its header.
ExtTake_HeaderEach ==
    /\ epc = "wait"
    /\ gpc \in {"yield55", "yield66"}
    /\ header' = Value(cols)
    /\ IF ~wrote_header
       THEN /\ out' = Append(out, Value(cols))
            /\ wrote_header' = TRUE
       ELSE UNCHANGED <<out, wrote_header>>
    /\ ext_rows' = parse_values_blob(Value(values))
    /\ epc' = "rows"
    /\ UNCHANGED <<genVars, tokVars, uniVars>>

\* Lines 201-206: the loop body up to the parse of the blob.
ExtTake ==
    /\ epc = "wait"
    /\ gpc \in {"yield55", "yield66"}
    /\ IF ~wrote_header
       THEN /\ header' = Value(cols)
            /\ out' = Append(out, Value(cols))
            /\ wrote_header' = TRUE
       ELSE UNCHANGED <<header, out, wrote_header>>
    /\ ext_rows' = parse_values_blob(Value(values))
    /\ epc' = "rows"
    /\ UNCHANGED <<genVars, tokVars, uniVars>>

\* Lines 207-213: one row is normalized and written.
ExtWriteRow ==
    /\ epc = "rows"
    /\ ext_rows # <<>>
    /\ out' = Append(out, NormalizeRow(Head(ext_rows), header))
    /\ ext_rows' = Tail(ext_rows)
    /\ UNCHANGED <<wrote_header, header, epc, genVars, tokVars, uniVars>>

\* The rows of the statement are written: the loop asks for the next pair.
ExtResume ==
    /\ epc = "rows"
    /\ ext_rows = <<>>
    /\ Resume
    /\ epc' = "wait"
    /\ UNCHANGED <<wrote_header, header, ext_rows, out, tokVars, uniVars>>

\* The generator is exhausted: the files are closed (line 215).
ExtClose ==
    /\ epc = "wait"
    /\ gpc = "done"
    /\ epc' = "closed"
    /\ UNCHANGED <<wrote_header, header, ext_rows, out, genVars, tokVars, uniVars>>

InitExt ==
    /\ fp \in Dumps
    /\ GenStart
    /\ gpc = "off"
    /\ wrote_header = FALSE
    /\ header = <<>>
    /\ ext_rows = <<>>
    /\ out \in StaleOutputs
    /\ epc = "start"
    /\ TokIdle
    /\ UniIdle

NextExt ==
    \/ ExtOpen
    \/ GenSkip
    \/ GenOpen
    \/ GenSingle
    \/ GenAppend
    \/ GenClose
    \/ GenReturn
    \/ ExtTake
    \/ ExtWriteRow
    \/ ExtResume
    \/ ExtClose

SpecExt == InitExt /\ [][NextExt]_vars

-----------------------------------------------------------------------------
(* unify_chants.main: the join of the three CSV files.  A row that         *)
(* csv.DictReader gives is a record of optional strings: a column the file *)
(* or the row lacks reads as None through dict.get.  The --gzip branch     *)
(* (lines 79-93) runs after the output is written and is left out.         *)

\* A dict as a function on its keys; {} is the function with no key.
EmptyDict == <<>>

Put(d, key, v) == [x \in DOMAIN d \cup {key} |-> IF x = key THEN v ELSE d[x]]

HasKey(d, key) == key # None /\ Value(key) \in DOMAIN d

\* An index in which the first row of an id stays.
IndexSources_FirstWins(d, srcs) ==
    LET ids == {srcs[p].id : p \in 1..Len(srcs)} \ {None}
        First(sid) == CHOOSE p \in 1..Len(srcs) :
                          /\ srcs[p].id = sid
                          /\ \A q \in 1..(p - 1) : srcs[q].id # sid
    IN  [x \in {Value(sid) : sid \in ids} |-> srcs[First(Some(x))]]

\* Lines 41-46: sources_by_id, built from the dict d over the rows srcs.
RECURSIVE IndexSources(_, _)
IndexSources(d, srcs) ==
    IF srcs = <<>> THEN d
    ELSE IF Head(srcs).id = None THEN IndexSources(d, Tail(srcs))
    ELSE IndexSources(Put(d, Value(Head(srcs).id), Head(srcs)), Tail(srcs))

\* Lines 55-61: the entry of one bridge row; sources_by_id.get(src_id) is None
\* for an id the index does not hold.
Entry(cs, by_id) ==
    [id |-> cs.source, page |-> cs.page, sequence |-> cs.sequence,
     extent |-> cs.extent,
     source |-> IF HasKey(by_id, cs.source)
                THEN Some(by_id[Value(cs.source)]) ELSE None]

\* Lines 49-62: sources_by_chant, built from the dict d over the bridge rows.
RECURSIVE GroupSources(_, _, _)
GroupSources(d, bridge, by_id) ==
    IF bridge = <<>> THEN d
    ELSE LET cs == Head(bridge)
             key == Value(cs.chant_id)
         IN  IF cs.chant_id = None THEN GroupSources(d, Tail(bridge), by_id)
             ELSE GroupSources(
                      Put(d, key, (IF key \in DOMAIN d THEN d[key] ELSE <<>>)
                                      \o <<Entry(cs, by_id)>>),
                      Tail(bridge), by_id)

\* A join that gives a chant without bridge entries no list.
ChantObj_NoDefault(chant, by_chant) ==
    [id |-> chant.id, incipit |-> chant.incipit,
     sources |-> IF HasKey(by_chant, chant.id)
                 THEN Some(by_chant[Value(chant.id)]) ELSE None]

\* Lines 71-74: dict(chant) with the key sources set to
\* sources_by_chant.get(chant_id, []); Some marks a value that is not None.
ChantObj(chant, by_chant) ==
    [id |-> chant.id, incipit |-> chant.incipit,
     sources |-> Some(IF HasKey(by_chant, chant.id)
                      THEN by_chant[Value(chant.id)] ELSE <<>>)]

ChantRows ==
    { [id |-> Some("1"), incipit |-> Some("Ave")],
      [id |-> Some("2"), incipit |-> Some("Salve")],
      [id |-> None, incipit |-> Some("Kyrie")] }

SourceRows ==
    { [id |-> Some("a"), title |-> Some("Graduale")],
      [id |-> Some("a"), title |-> Some("Liber")],
      [id |-> None, title |-> Some("Untitled")] }

BridgeRows ==
    { [chant_id |-> Some("1"), source |-> Some("a"), page |-> Some("12"),
       sequence |-> Some("1"), extent |-> None],
      [chant_id |-> Some("1"), source |-> Some("b"), page |-> Some("40"),
       sequence |-> Some("2"), extent |-> None],
      [chant_id |-> None, source |-> Some("a"), page |-> Some("7"),
       sequence |-> None, extent |-> None] }

SeqsUpTo(S, n) == UNION {[1..len -> S] : len \in 0..n}

\* The three files: None for a file that does not exist, else its rows.
CsvDirs ==
    { [chants |-> Some(c), sources |-> Some(s), chant_sources |-> Some(b)] :
          c \in SeqsUpTo(ChantRows, MaxRows), s \in SeqsUpTo(SourceRows, MaxRows),
          b \in SeqsUpTo(BridgeRows, MaxRows) }
    \cup
    { [chants |-> c, sources |-> s, chant_sources |-> b] :
          c \in {None, Some(<<>>)}, s \in {None, Some(<<>>)},
          b \in {None, Some(<<>>)} }

Raise(what) ==
    /\ raised' = Some(what)
    /\ upc' = "failed"

\* A main that makes the output directory before it looks for its inputs.
UniCheckChants_MkdirFirst ==
    /\ upc = "check_chants"
    /\ out_dir' = TRUE
    /\ IF csv.chants = None
       THEN Raise("FileNotFoundError: Missing chants CSV")
       ELSE upc' = "check_sources" /\ UNCHANGED raised
    /\ UNCHANGED <<csv, chants, sources, chant_sources, sources_by_id,
                   sources_by_chant, out_open, out_lines, k>>
    /\ UNCHANGED <<tokVars, genVars, extVars>>

\* Lines 29-30.
UniCheckChants ==
    /\ upc = "check_chants"
    /\ IF csv.chants = None
       THEN Raise("FileNotFoundError: Missing chants CSV")
       ELSE upc' = "check_sources" /\ UNCHANGED raised
    /\ UNCHANGED <<csv, chants, sources, chant_sources, sources_by_id,
                   sources_by_chant, out_dir, out_open, out_lines, k>>
    /\ UNCHANGED <<tokVars, genVars, extVars>>

\* Lines 31-32.
UniCheckSources ==
    /\ upc = "check_sources"
    /\ IF csv.sources = None
       THEN Raise("FileNotFoundError: Missing sources CSV")
       ELSE upc' = "check_chant_sources" /\ UNCHANGED raised
    /\ UNCHANGED <<csv, chants, sources, chant_sources, sources_by_id,
                   sources_by_chant, out_dir, out_open, out_lines, k>>
    /\ UNCHANGED <<tokVars, genVars, extVars>>

\* Lines 33-34.
UniCheckChantSources ==
    /\ upc = "check_chant_sources"
    /\ IF csv.chant_sources = None
       THEN Raise("FileNotFoundError: Missing chant-sources CSV")
       ELSE upc' = "load" /\ UNCHANGED raised
    /\ UNCHANGED <<csv, chants, sources, chant_sources, sources_by_id,
                   sources_by_chant, out_dir, out_open, out_lines, k>>
    /\ UNCHANGED <<tokVars, genVars, extVars>>

\* Lines 36-38.
UniLoad ==
    /\ upc = "load"
    /\ chants' = Value(csv.chants)
    /\ sources' = Value(csv.sources)
    /\ chant_sources' = Value(csv.chant_sources)
    /\ upc' = "index"
    /\ UNCHANGED <<csv, sources_by_id, sources_by_chant, out_dir, out_open,
                   out_lines, raised, k>>
    /\ UNCHANGED <<tokVars, genVars, extVars>>

\* Lines 41-46.
UniIndex ==
    /\ upc = "index"
    /\ sources_by_id' = IndexSources(EmptyDict, sources)
    /\ upc' = "group"
    /\ UNCHANGED <<csv, chants, sources, chant_sources, sources_by_chant,
                   out_dir, out_open, out_lines, raised, k>>
    /\ UNCHANGED <<tokVars, genVars, extVars>>

\* Lines 49-62.
UniGroup ==
    /\ upc = "group"
    /\ sources_by_chant' = GroupSources(EmptyDict, chant_sources, sources_by_id)
    /\ upc' = "mkdir"
    /\ UNCHANGED <<csv, chants, sources, chant_sources, sources_by_id,
                   out_dir, out_open, out_lines, raised, k>>
    /\ UNCHANGED <<tokVars, genVars, extVars>>

\* Lines 65-66: out_path.parent.mkdir.
UniMkdir ==
    /\ upc = "mkdir"
    /\ out_dir' = TRUE
    /\ upc' = "open"
    /\ UNCHANGED <<csv, chants, sources, chant_sources, sources_by_id,
                   sources_by_chant, out_open, out_lines, raised, k>>
    /\ UNCHANGED <<tokVars, genVars, extVars>>

\* Line 69: out_path.open("w").
UniOpen ==
    /\ upc = "open"
    /\ out_open' = TRUE
    /\ out_lines' = <<>>
    /\ k' = 0
    /\ upc' = "write"
    /\ UNCHANGED <<csv, chants, sources, chant_sources, sources_by_id,
                   sources_by_chant, out_dir, raised>>
    /\ UNCHANGED <<tokVars, genVars, extVars>>

\* Lines 70-75: one chant is written; k chants are written so far.
UniWrite ==
    /\ upc = "write"
    /\ k < Len(chants)
    /\ out_lines' = Append(out_lines, ChantObj(chants[k + 1], sources_by_chant))
    /\ k' = k + 1
    /\ UNCHANGED <<csv, chants, sources, chant_sources, sources_by_id,
                   sources_by_chant, out_dir, out_open, raised, upc>>
    /\ UNCHANGED <<tokVars, genVars, extVars>>

\* Line 77: the loop is over and the file is closed.
UniDone ==
    /\ upc = "write"
    /\ k = Len(chants)
    /\ upc' = "done"
    /\ UNCHANGED <<csv, chants, sources, chant_sources, sources_by_id,
                   sources_by_chant, out_dir, out_open, out_lines, raised, k>>
    /\ UNCHANGED <<tokVars, genVars, extVars>>

InitUni ==
    /\ csv \in CsvDirs
    /\ chants = <<>>
    /\ sources = <<>>
    /\ chant_sources = <<>>
    /\ sources_by_id = EmptyDict
    /\ sources_by_chant = EmptyDict
    /\ out_dir = FALSE
    /\ out_open = FALSE
    /\ out_lines = <<>>
    /\ raised = None
    /\ upc = "check_chants"
    /\ k = 0
    /\ TokIdle
    /\ GenIdle
    /\ ExtIdle

NextUni ==
    \/ UniCheckChants
    \/ UniCheckSources
    \/ UniCheckChantSources
    \/ UniLoad
    \/ UniIndex
    \/ UniGroup
    \/ UniMkdir
    \/ UniOpen
    \/ UniWrite
    \/ UniDone

SpecUni == InitUni /\ [][NextUni]_vars

-----------------------------------------------------------------------------
(* Claims about parse_values_blob, checked under SpecTok.                  *)

\* The blob ('a\'s'),('b') of the specification's example, written there as
\* a string literal of the source language: one backslash character.
BlobEscapedQuote == Chars("('a\\'s'),('b')")

\* C2: tokenizing the blob ('a\'s'),('b') yields exactly the two rows ["a's"]
\* and ["b"]; in every state an iteration that reads a backslash pair inside a
\* string leaves the tokenizer inside the string.
C2_EscapedQuote ==
    /\ (blob = BlobEscapedQuote /\ tpc = "done")
           => rows = << <<Chars("a's")>>, <<Chars("b")>> >>
    /\ (tpc = "scan" /\ i + 1 < Len(blob) /\ in_str /\ blob[i + 1] = "\\")
           => /\ TokStep(TokState, blob).in_str
              /\ TokStep(TokState, blob).i = i + 2

C2_Witness ==
    /\ blob = BlobEscapedQuote
    /\ tpc = "done"
    /\ Len(rows) = 2
    /\ rows[1] = <<Chars("a's")>>

\* The blob ( ' w ' ): one tuple holding one string literal with content w.
QuotedBlob(w) == <<"(", "'">> \o w \o <<"'", ")">>

QuotedContents == {Chars("NULL"), Chars("null"), Chars("abc"), Chars("12")}

\* C3: a field decodes to the empty string only when its text is the unquoted
\* literal NULL; a single-quoted literal, also one whose content is NULL,
\* keeps its decoded text.
C3_QuotedNullKept ==
    \A w \in QuotedContents :
        (blob = QuotedBlob(w) /\ tpc = "done") => rows = << <<w>> >>

Separators == {"(", ")", ",", ";"}

BlobQuotedComma == Chars("('a','b,c',NULL,123)")

\* A step that reads a separator character as string content: the character
\* is appended to the field and nothing else of the result changes.
C5Content(c) ==
    /\ cur' = Append(cur, c)
    /\ depth' = depth
    /\ cur_row' = cur_row
    /\ rows' = rows
    /\ in_str'

C5Step ==
    /\ (tpc = "scan" /\ i < Len(blob) /\ in_str /\ blob[i + 1] \in Separators)
           => C5Content(blob[i + 1])
    /\ (/\ tpc = "scan" /\ i + 1 < Len(blob) /\ in_str /\ blob[i + 1] = "\\"
        /\ blob[i + 2] \in Separators)
           => C5Content(blob[i + 2])

\* C5: inside a string literal the characters ( ) , ; are appended to the
\* current field: depth, the current row and the result are left unchanged
\* and the tokenizer stays in the string; ('a','b,c',NULL,123) yields the
\* one row ["a", "b,c", "", "123"].
C5_SeparatorsInString ==
    /\ []((blob = BlobQuotedComma /\ tpc = "done")
              => rows = << <<Chars("a"), Chars("b,c"), <<>>, Chars("123")>> >>)
    /\ [][C5Step]_vars

C5_Witness ==
    /\ blob = BlobQuotedComma
    /\ tpc = "done"
    /\ Len(rows) = 1
    /\ rows[1][2] = Chars("b,c")

BlobDoubledQuote == Chars("('it''s','line1\nline2')")

C6Step ==
    /\ (/\ tpc = "scan" /\ i + 1 < Len(blob) /\ in_str /\ blob[i + 1] = "'"
        /\ blob[i + 2] = "'")
           => /\ cur' = Append(cur, "'")
              /\ i' = i + 2
              /\ in_str'
              /\ UNCHANGED <<depth, cur_row, rows>>
    /\ (tpc = "scan" /\ i < Len(blob) /\ in_str /\ blob[i + 1] = "\n")
           => /\ cur' = Append(cur, "\n")
              /\ in_str'
              /\ UNCHANGED <<depth, cur_row, rows>>

\* C6: inside a string a doubled quote appends one quote, consumes both
\* characters and stays in the string; a raw newline inside a string is
\* appended to the field and ends neither field nor row;
\* ('it''s','line1<newline>line2') yields the one row
\* ["it's", "line1<newline>line2"].
C6_DoubledQuoteAndNewline ==
    /\ []((blob = BlobDoubledQuote /\ tpc = "done")
              => rows = << <<Chars("it's"), Chars("line1\nline2")>> >>)
    /\ [][C6Step]_vars

C6_Witness ==
    /\ blob = BlobDoubledQuote
    /\ tpc = "done"
    /\ rows = << <<Chars("it's"), Chars("line1\nline2")>> >>

-----------------------------------------------------------------------------
(* Claims about iter_insert_chunks, checked under SpecRec.                 *)

\* Whether the character at the 0-based index p of c lies inside a
\* single-quoted literal, reading c from index pos in quote state inq: a quote
\* opens or ends a literal, a backslash pair and a doubled quote stay inside.
RECURSIVE InLiteral(_, _, _, _)
InLiteral(c, p, pos, inq) ==
    IF pos >= p THEN inq
    ELSE IF inq /\ c[pos + 1] = "\\" THEN
             IF pos + 2 > p THEN TRUE ELSE InLiteral(c, p, pos + 2, TRUE)
    ELSE IF inq /\ c[pos + 1] = "'" /\ pos + 1 < Len(c) /\ c[pos + 2] = "'" THEN
             IF pos + 2 > p THEN TRUE ELSE InLiteral(c, p, pos + 2, TRUE)
    ELSE IF c[pos + 1] = "'" THEN InLiteral(c, p, pos + 1, ~inq)
    ELSE InLiteral(c, p, pos + 1, inq)

\* The index after the keyword VALUES of a statement that splits.
AfterValues(c) ==
    LET pos_close == FindFrom(c, <<")">>, Find(c, <<"(">>) + 1)
    IN  pos_close + 1 + Find(Upper(From(c, pos_close + 1)), Chars("VALUES"))
            + Len(Chars("VALUES"))

\* The index of the first ; after VALUES outside every literal, or -1.
FirstTerminator(c) ==
    LET ends == {p \in AfterValues(c)..(Len(c) - 1) :
                     c[p + 1] = ";" /\ ~InLiteral(c, p, AfterValues(c), FALSE)}
    IN  IF ends = {} THEN -1 ELSE CHOOSE p \in ends : \A q \in ends : p <= q

\* C1: every yielded pair comes from a statement whose accumulation was ended
\* by the first ; after VALUES that lies outside a single-quoted literal: the
\* last non-blank character of the accumulated chunk is that ;.
C1_QuoteAwareTerminator ==
    gpc \in {"yield55", "yield66"}
        => FirstTerminator(Value(chunk)) = Len(Strip(Value(chunk))) - 1

LineAt(p) == RStripSet(fp[p], {"\n"})

\* The chunk the line read next completes, when it completes one.
Completing == Join(<<"\n">>, IF capturing THEN Append(acc, Line) ELSE <<Line>>)

C7Step ==
    (/\ Reading
     /\ EndsStatement(Line)
     /\ capturing \/ StartsWith(Line, prefix)
     /\ ~Splits(split_insert(Completing)))
        => /\ yielded' = yielded
           /\ gpc' = "scan"
           /\ lineno' = lineno + 1
           /\ acc' = <<>>
           /\ ~capturing'

\* The pairs of a stream of one-line statements, in stream order.
RECURSIVE ExpectedSingles(_)
ExpectedSingles(lines) ==
    IF lines = <<>> THEN <<>>
    ELSE LET l == RStripSet(Head(lines), {"\n"})
             r == split_insert(l)
         IN  (IF StartsWith(l, prefix) /\ Splits(r)
              THEN <<[cols |-> Value(r.cols), values |-> Value(r.values)]>>
              ELSE <<>>) \o ExpectedSingles(Tail(lines))

\* C7: a completed statement whose split fails yields nothing, raises nothing
\* and leaves the recognizer scanning at the next line; the scan reads every
\* line, and of a stream of one-line statements every statement that splits is
\* yielded, in stream order, whatever failed before it.
C7_SplitFailureSkipped ==
    /\ [](gpc = "done" => lineno = Len(fp))
    /\ []((gpc = "done" /\ \A p \in 1..Len(fp) : EndsStatement(LineAt(p)))
              => yielded = ExpectedSingles(fp))
    /\ [][C7Step]_vars

C7_Witness ==
    /\ gpc = "done"
    /\ Len(fp) >= 2
    /\ StartsWith(LineAt(1), prefix)
    /\ EndsStatement(LineAt(1))
    /\ ~Splits(split_insert(LineAt(1)))
    /\ Len(yielded) >= 1

-----------------------------------------------------------------------------
(* Claims about extract_table, checked under SpecExt.                      *)

C8Step ==
    (epc = "rows" /\ ext_rows # <<>>)
        => /\ Len(out') = Len(out) + 1
           /\ Len(out'[Len(out')]) = Len(header)
           /\ \A j \in 1..Len(header) :
                  out'[Len(out')][j] =
                      IF j <= Len(Head(ext_rows)) THEN Head(ext_rows)[j] ELSE <<>>

\* C8: every row written to the CSV has as many fields as the header: the
\* written row holds the parsed row's fields up to the header length and empty
\* strings in the places the parsed row does not reach.
C8_RowsHaveHeaderWidth ==
    /\ [](epc # "start" => \A p \in 1..Len(out) : Len(out[p]) = Len(header))
    /\ [][C8Step]_vars

C8_Witness ==
    /\ epc = "rows"
    /\ ext_rows = <<>>
    /\ header = <<Chars("a"), Chars("b")>>
    /\ Len(out) = 3
    /\ out[3] = <<Chars("2"), <<>>>>

-----------------------------------------------------------------------------
(* Claims about unify_chants.main, checked under SpecUni.                  *)

Indexed == upc \in {"group", "mkdir", "open", "write", "done"}

SameId(p, sid) == sources[p].id = sid

\* The first and the last row of the sources table with the id sid.
FirstRow(sid) ==
    sources[CHOOSE p \in 1..Len(sources) :
                SameId(p, sid) /\ \A q \in 1..Len(sources) : SameId(q, sid) => p <= q]

LastRow(sid) ==
    sources[CHOOSE p \in 1..Len(sources) :
                SameId(p, sid) /\ \A q \in 1..Len(sources) : SameId(q, sid) => q <= p]

SourceIds == {sources[p].id : p \in 1..Len(sources)} \ {None}

\* The row of the sources table that a rule ("first" or "last") picks for sid.
Pick(rule, sid) == IF rule = "first" THEN FirstRow(sid) ELSE LastRow(sid)

\* The index and every written bridge entry resolve an id to the row the rule
\* picks.
Resolves(rule) ==
    /\ Indexed => /\ DOMAIN sources_by_id = {Value(sid) : sid \in SourceIds}
                  /\ \A sid \in SourceIds :
                         sources_by_id[Value(sid)] = Pick(rule, sid)
    /\ \A p \in 1..Len(out_lines) :
           \A q \in 1..Len(Value(out_lines[p].sources)) :
               LET e == Value(out_lines[p].sources)[q]
               IN  e.source = IF e.id \in SourceIds
                              THEN Some(Pick(rule, e.id)) ELSE None

\* C4 as stated: of several sources rows with one id the index keeps the
\* first, and the bridge entries with that id are enriched with the first.
C4_FirstMatchWins == Resolves("first")

\* C4: of several sources rows with one id the index keeps the last in file
\* order, every bridge entry with that id is enriched with that last row, and
\* the collision raises no error.
C4_LastMatchWins ==
    /\ Resolves("last")
    /\ Indexed => raised = None

C4_Witness ==
    /\ upc = "done"
    /\ Len(sources) = 2
    /\ sources[1].id = sources[2].id
    /\ sources[1] # sources[2]
    /\ \E p \in 1..Len(out_lines) :
           /\ Value(out_lines[p].sources) # <<>>
           /\ Value(out_lines[p].sources)[1].source = Some(sources[2])

\* The bridge rows of a chant, in bridge order, as entries.
RECURSIVE EntriesOf(_, _)
EntriesOf(chant_id, bridge) ==
    IF bridge = <<>> THEN <<>>
    ELSE (IF chant_id # None /\ Head(bridge).chant_id = chant_id
          THEN <<Entry(Head(bridge), sources_by_id)>> ELSE <<>>)
             \o EntriesOf(chant_id, Tail(bridge))

\* C9: the output holds one object per row of the chants CSV, in CSV order
\* (when the run is done, one for every row), and each object has under
\* sources a list, never None: the entries of the chant's bridge rows, the
\* empty list for a chant without bridge rows.
C9_EveryChantHasSourcesList ==
    /\ Len(out_lines) <= Len(chants)
    /\ upc = "done" => Len(out_lines) = Len(chants)
    /\ \A p \in 1..Len(out_lines) :
           /\ out_lines[p].id = chants[p].id
           /\ out_lines[p].incipit = chants[p].incipit
           /\ out_lines[p].sources # None
           /\ Value(out_lines[p].sources) = EntriesOf(chants[p].id, chant_sources)

C9_Witness ==
    /\ upc = "done"
    /\ Len(out_lines) = 2
    /\ Value(out_lines[1].sources) = <<>>
    /\ Len(Value(out_lines[2].sources)) = 2
    /\ chant_sources # <<>>

Absent(file) == file = None

\* C10: when one of the three CSV files is absent, main raises before it makes
\* the output directory, opens the output file or writes a line: it never
\* gets past the three checks.
C10_MissingCsvFailsFirst ==
    (Absent(csv.chants) \/ Absent(csv.sources) \/ Absent(csv.chant_sources))
        => /\ ~out_dir
           /\ ~out_open
           /\ out_lines = <<>>
           /\ upc \in {"check_chants", "check_sources", "check_chant_sources",
                       "failed"}
           /\ upc = "failed" => raised # None

C10_Witness ==
    /\ upc = "failed"
    /\ ~Absent(csv.chants)
    /\ ~Absent(csv.sources)
    /\ Absent(csv.chant_sources)
    /\ ~out_dir

-----------------------------------------------------------------------------
(* Claims about the tuples and the depth of parse_values_blob, checked     *)
(* under SpecTok.                                                          *)

\* The 0-based indices below n at which b holds the character c outside every
\* string literal.
ReadOutside(b, c, n) ==
    {p \in 0..(n - 1) : b[p + 1] = c /\ ~InLiteral(b, p, 0, FALSE)}

\* The ( read outside strings less the ) read outside strings, below n.
NetDepth(b, n) ==
    Cardinality(ReadOutside(b, "(", n)) - Cardinality(ReadOutside(b, ")", n))

\* The tuples opened at top level: a ( outside strings with nothing open.
TopLevelOpens(b) == {p \in ReadOutside(b, "(", Len(b)) : NetDepth(b, p) = 0}

\* The tuples closed at top level: a ) outside strings with one ( open.
TopLevelCloses(b) == {p \in ReadOutside(b, ")", Len(b)) : NetDepth(b, p) = 1}

\* C11 as stated: every tuple opened at top level gives its own row, also in
\* a blob with malformed tuples.
C11_EveryOpenedTupleGivesRow ==
    tpc = "done" => Len(rows) = Cardinality(TopLevelOpens(blob))

C11Step ==
    /\ rows' # rows
           => /\ tpc = "scan" /\ ~in_str /\ blob[i + 1] = ")" /\ depth = 1
              /\ rows' = Append(rows, Append(cur_row, FinalizeField(TokState)))
    /\ (tpc = "scan" /\ i < Len(blob) /\ ~in_str /\ blob[i + 1] = ")"
            /\ depth = 1)
           => /\ rows' = Append(rows, Append(cur_row, FinalizeField(TokState)))
              /\ cur_row' = <<>>
              /\ cur' = <<>>
    /\ (tpc = "scan" /\ i < Len(blob) /\ ~in_str /\ blob[i + 1] = "("
            /\ depth = 0)
           => /\ cur_row' = <<>>
              /\ cur' = <<>>
              /\ rows' = rows
    /\ cur_row' # cur_row
           => \/ cur_row' = <<>>
              \/ /\ depth = 1 /\ ~in_str /\ blob[i + 1] = ","
                 /\ cur_row' = Append(cur_row, FinalizeField(TokState))

\* C11, amended: every tuple opened at top level and closed gives its own
\* row, in blob order, made of exactly the fields finalized between its ( and
\* its ), and a tuple opened and never closed gives no row: the result has one
\* row per top-level ), a row is appended only by such a ) and is the fields
\* of the current tuple followed by its last field, the fields of the current
\* tuple only grow by one finalized field at a time, and a top-level ( starts
\* from no field and no text, so that no row holds fields of two tuples.
C11_ClosedTuplesGiveRows ==
    /\ [](tpc = "done" => Len(rows) = Cardinality(TopLevelCloses(blob)))
    /\ [](depth <= 0 => cur_row = <<>>)
    /\ [][C11Step]_vars

\* A closed tuple followed by a tuple that is opened and never closed.
C11_Witness ==
    /\ blob = <<"(", "a", ")", "(", "a">>
    /\ tpc = "done"
    /\ rows = << <<(<<"a">>)>> >>
    /\ cur = <<"a">>

IsPrefix(s, t) == Len(s) <= Len(t) /\ SubSeq(t, 1, Len(s)) = s

\* C12: the scan raises no error on any blob, also one with unbalanced quotes
\* or parentheses: every iteration reads inside the blob and has an outcome
\* that stays inside it; the result is append-only: an iteration leaves the
\* rows it found in place, and the rows returned for every prefix of a blob
\* are a prefix of the rows returned for the blob.
C12_AppendOnlyNoError ==
    /\ (tpc = "scan" /\ i < Len(blob))
           => LET t == TokStep(TokState, blob)
              IN  /\ t.i \in (i + 1)..Len(blob)
                  /\ t.in_str \in BOOLEAN
                  /\ IsPrefix(rows, t.rows)
    /\ tpc = "done"
           => \A n \in 0..Len(blob) :
                  IsPrefix(parse_values_blob(SubSeq(blob, 1, n)), rows)

C12_Witness ==
    /\ blob = BlobEscapedQuote
    /\ tpc = "done"
    /\ parse_values_blob(SubSeq(blob, 1, 8)) = << <<Chars("a's")>> >>
    /\ rows = << <<Chars("a's")>>, <<Chars("b")>> >>

\* The ( read outside strings below n that no ) read outside strings below n
\* matches: a ) matches the nearest ( still open, and matches nothing when
\* none is open.
RECURSIVE Unmatched(_, _)
Unmatched(b, n) ==
    IF n = 0 THEN 0
    ELSE LET u == Unmatched(b, n - 1)
         IN  IF n - 1 \in ReadOutside(b, "(", n) THEN u + 1
             ELSE IF n - 1 \in ReadOutside(b, ")", n) /\ u > 0 THEN u - 1
             ELSE u

\* The ) read outside strings below n while nothing was open.
StrayCloses(b, n) == {p \in ReadOutside(b, ")", n) : NetDepth(b, p) <= 0}

\* C13 as stated: in every state of the scan depth is the number of ( read
\* outside strings that no ) read outside strings matches yet, and it is never
\* negative.
C13_DepthCountsUnmatched ==
    tpc # "off" => depth >= 0 /\ depth = Unmatched(blob, i)

\* C13, amended: in every state of the scan depth is the number of ( read
\* outside strings less the number of ) read outside strings; this is the
\* number of unmatched ( as long as no ) was read with nothing open, and
\* depth is negative only after such a ).
C13_DepthIsOpensLessCloses ==
    tpc # "off"
        => /\ depth = NetDepth(blob, i)
           /\ StrayCloses(blob, i) = {} => depth = Unmatched(blob, i)
           /\ depth < 0 => StrayCloses(blob, i) # {}

\* A ) read with nothing open, then a whole tuple that gives no row.
C13_Witness ==
    /\ blob = <<")", "(", "a", ")">>
    /\ tpc = "done"
    /\ depth = -1
    /\ rows = <<>>

-----------------------------------------------------------------------------
(* Claims about the states of iter_insert_chunks, checked under SpecRec.   *)

\* The recognizer is between two input lines: at the top of its loop, or
\* returned.
BetweenLines == gpc \in {"scan", "done"}

C14Step ==
    /\ (~capturing /\ capturing')
           => Reading /\ StartsWith(Line, prefix) /\ ~EndsStatement(Line)
    /\ (Reading /\ ~capturing /\ StartsWith(Line, prefix)
            /\ EndsStatement(Line))
           => ~capturing'
    /\ (Reading /\ EndsStatement(Line)
            /\ (capturing \/ StartsWith(Line, prefix)))
           => \/ gpc' = "scan" /\ acc' = <<>> /\ ~capturing'
                     /\ yielded' = yielded
              \/ gpc' \in {"yield55", "yield66"}
                     /\ Len(yielded') = Len(yielded) + 1
    /\ (gpc \in {"yield55", "yield66"} /\ gpc' # gpc)
           => gpc' = "scan" /\ acc' = <<>> /\ ~capturing'
    /\ (Reading /\ ~capturing /\ ~StartsWith(Line, prefix))
           => UNCHANGED <<acc, capturing, chunk, cols, values, gpc, yielded>>

\* C14: between input lines the recognizer is in one of two states: not
\* capturing with an empty accumulator, or capturing with an accumulator
\* whose first line starts with the prefix and none of whose lines ends, after
\* trimming, with ; .  Capturing becomes true only on a prefix line that does
\* not end with ; ; after a line ending with ; that completes a statement the
\* recognizer is back to not capturing with an empty accumulator, whether the
\* statement was yielded or skipped; a line without the prefix read while
\* not capturing changes nothing.
C14_TwoStateRecognizer ==
    /\ []((BetweenLines /\ ~capturing) => acc = <<>>)
    /\ []((BetweenLines /\ capturing)
              => /\ acc # <<>>
                 /\ StartsWith(acc[1], prefix)
                 /\ \A p \in 1..Len(acc) : ~EndsStatement(acc[p]))
    /\ [][C14Step]_vars

\* A statement was yielded from capture and a second one is open.
C14_Witness ==
    /\ gpc = "scan"
    /\ capturing
    /\ Len(acc) = 1
    /\ Len(yielded) = 1
    /\ chunk # None
    /\ \E q \in 1..Len(Value(chunk)) : Value(chunk)[q] = "\n"

\* Whether the text of c at the 0-based index p reads VALUES, in any letter
\* case.
ValuesAt(c, p) ==
    /\ p + 6 <= Len(c)
    /\ \A q \in 1..6 : Upper(<<c[p + q]>>) = <<Chars("VALUES")[q]>>

\* The least member of a set of indices, or -1 for the empty set.
Least(set) == IF set = {} THEN -1 ELSE CHOOSE p \in set : \A q \in set : p <= q

\* The pair the claim gives for a completed statement c.
C15Expected(c) ==
    LET open == Least({p \in 0..(Len(c) - 1) : c[p + 1] = "("})
        close == IF open < 0 THEN -1
                 ELSE Least({p \in (open + 1)..(Len(c) - 1) : c[p + 1] = ")"})
        kw == IF close < 0 THEN -1
              ELSE Least({p \in (close + 1)..(Len(c) - 6) : ValuesAt(c, p)})
    IN  IF kw < 0 THEN NoSplit
        ELSE LET names == SplitOn(SubSeq(c, open + 2, close), ",")
             IN  [cols |-> Some([p \in 1..Len(names) |->
                                    StripSet(Strip(names[p]), {Backtick})]),
                  values |-> Some(RStripSet(From(c, kw + 6),
                                            {";", "\n", "\r", " "}))]

\* C15: for a completed statement the column list is the text between the
\* first ( and the first ) after it, split on commas, each name trimmed of
\* whitespace and backticks; the values blob is the text after the first
\* VALUES, in any letter case, behind that ), without its trailing ; newline,
\* carriage return and space; the result is a pair exactly when both
\* parentheses and such a VALUES exist and (None, None) otherwise.
C15_SplitInsert ==
    chunk # None => [cols |-> cols, values |-> values] = C15Expected(Value(chunk))

-----------------------------------------------------------------------------
(* Claims about the strings and the index of parse_values_blob, checked    *)
(* under SpecTok.                                                          *)

BlobEscapes == Chars("('x\\ry\\tz\\n\\q')")

\* The character a backslash pair stands for.
C16Char(e) ==
    IF e = "n" THEN "\n"
    ELSE IF e = "r" THEN "\r"
    ELSE IF e = "t" THEN "\t"
    ELSE e

C16Step ==
    /\ (tpc = "scan" /\ i + 1 < Len(blob) /\ in_str /\ blob[i + 1] = "\\")
           => /\ i' = i + 2
              /\ cur' = Append(cur, C16Char(blob[i + 2]))
              /\ in_str'
              /\ UNCHANGED <<depth, cur_row, rows>>
    /\ (in_str /\ ~in_str')
           => /\ tpc = "scan"
              /\ blob[i + 1] = "'"
              /\ i + 1 < Len(blob) => blob[i + 2] # "'"
              /\ i' = i + 1
              /\ UNCHANGED <<cur, depth, cur_row, rows>>
    /\ (~in_str /\ in_str')
           => /\ tpc = "scan"
              /\ blob[i + 1] = "'"
              /\ i' = i + 1
              /\ UNCHANGED <<cur, depth, cur_row, rows>>

\* C16: inside a string a backslash followed by a character is consumed as
\* one unit of two characters that appends exactly one character (n, r, t as
\* newline, carriage return, tab, any other character as itself) and stays in
\* the string; the tokenizer leaves a string only on a quote that is neither
\* the second character of a backslash pair nor part of a doubled quote, so
\* that in every state in_str says whether the index lies inside a literal;
\* neither the opening nor the ending quote is appended.
C16_BackslashPairsAndQuotes ==
    /\ []((tpc = "scan" /\ i <= Len(blob))
              => in_str = InLiteral(blob, i, 0, FALSE))
    /\ []((blob = BlobEscapes /\ tpc = "done")
              => rows = << <<Chars("x\ry\tz\nq")>> >>)
    /\ [][C16Step]_vars

C16_Witness ==
    /\ blob = BlobEscapes
    /\ tpc = "done"
    /\ ~in_str
    /\ rows = << <<Chars("x\ry\tz\nq")>> >>

C17Step ==
    /\ (tpc = "scan" /\ i < Len(blob))
           => /\ tpc' = "scan"
              /\ \/ i' = i + 1
                 \/ i' = i + 2 /\ i + 1 < Len(blob)
    /\ (tpc = "scan" /\ i >= Len(blob)) => (tpc' = "done" /\ i' = i)
    /\ tpc = "done" => tpc' = "done"

\* C17: the scan of every blob terminates: every iteration moves the index i
\* forward by 1 or by 2, by 2 only when i + 1 is below the length n of the
\* blob, i never exceeds n, and the loop is left, with i = n.
C17_ScanTerminates ==
    /\ [](tpc # "off" => i \in 0..Len(blob))
    /\ [](tpc = "done" => i = Len(blob))
    /\ [][C17Step]_vars
    /\ <>(tpc = "done")

\* The last iteration stepped over a backslash pair that ends the blob.
C17_Witness ==
    /\ tpc = "done"
    /\ i = Len(blob)
    /\ blob = <<"'", "\\", "'">>
    /\ in_str
    /\ cur = <<"'">>

-----------------------------------------------------------------------------
(* Claims about the header of extract_table, checked under SpecExt.        *)

C18Step ==
    /\ wrote_header => (wrote_header' /\ header' = header)
    /\ (epc # "start" /\ out' # out)
           => \/ /\ ~wrote_header /\ wrote_header'
                 /\ out = <<>>
                 /\ out' = <<yielded[1].cols>>
              \/ /\ wrote_header
                 /\ ext_rows # <<>>
                 /\ out' = Append(out, NormalizeRow(Head(ext_rows), header))

\* C18: the header row is written at most once, before every data row, and
\* is the column list of the first statement yielded: once written, header
\* and the first row of the output never change, whatever the column lists of
\* later statements, and every later row has the header's width; when no
\* statement is yielded the output holds neither header nor rows, whatever it
\* held before the run.
C18_HeaderOnceFromFirstStatement ==
    /\ []((epc # "start" /\ wrote_header)
              => /\ yielded # <<>>
                 /\ header = yielded[1].cols
                 /\ out # <<>>
                 /\ out[1] = header
                 /\ \A p \in 2..Len(out) : Len(out[p]) = Len(yielded[1].cols))
    /\ []((epc # "start" /\ ~wrote_header) => out = <<>>)
    /\ []((epc = "closed" /\ yielded # <<>>) => wrote_header)
    /\ []((epc = "closed" /\ yielded = <<>>) => out = <<>>)
    /\ [][C18Step]_vars

\* Two statements with different column lists were written under the first
\* one's header.
C18_Witness ==
    /\ epc = "closed"
    /\ Len(yielded) = 2
    /\ Len(yielded[2].cols) > Len(yielded[1].cols)
    /\ header = yielded[1].cols
    /\ Len(out) = 4

-----------------------------------------------------------------------------
(* Claims about the end of the stream of iter_insert_chunks, checked under *)
(* SpecRec.                                                                *)

\* The lines among the first n of the stream whose trimmed form ends with ; .
Terminated(n) == {p \in 1..n : EndsStatement(LineAt(p))}

C19Step ==
    /\ (gpc # "done" /\ gpc' = "done")
           => /\ lineno = Len(fp)
              /\ yielded' = yielded
              /\ UNCHANGED <<acc, capturing>>
    /\ yielded' # yielded
           => /\ Reading
              /\ EndsStatement(Line)
              /\ Len(yielded') = Len(yielded) + 1

\* C19: when the stream ends while the recognizer is capturing, the open
\* statement is dropped: the return yields nothing, a pair is yielded only
\* by a line whose trimmed form ends with ; , and the number of pairs yielded
\* never exceeds the number of such lines read.
C19_OpenStatementDropped ==
    /\ [](Len(yielded) <= Cardinality(Terminated(lineno)))
    /\ []((gpc = "done" /\ capturing)
              => /\ acc # <<>>
                 /\ \A p \in 1..Len(acc) : ~EndsStatement(acc[p]))
    /\ [][C19Step]_vars

\* A statement was yielded, a second one was opened, and the stream ended.
C19_Witness ==
    /\ gpc = "done"
    /\ capturing
    /\ Len(acc) = 2
    /\ Splits(split_insert(Join(<<"\n">>, acc)))
    /\ Len(yielded) = 1
    /\ Cardinality(Terminated(Len(fp))) = 1

-----------------------------------------------------------------------------
(* Claims about the width of the rows of parse_values_blob, checked under  *)
(* SpecTok.                                                                *)

\* The commas of b read outside strings at depth 1 between the indices open
\* and close.
FieldCommas(b, open, close) ==
    {q \in ReadOutside(b, ",", close) : q > open /\ NetDepth(b, q) = 1}

\* The ( of the tuple that the top-level ) at the index close ends.
OpenOf(b, close) ==
    CHOOSE o \in TopLevelOpens(b) :
        o < close /\ \A x \in TopLevelOpens(b) : x < close => x <= o

\* The position in the result of the row of the tuple closed at close.
RowOf(b, close) == Cardinality({x \in TopLevelCloses(b) : x <= close})

BlobNested == Chars("(1,(2,3)),(4);")

\* C20: every row returned has at least one field, and as many fields as 1
\* plus the commas read outside strings at depth 1 between the ( and the )
\* of its tuple; the empty tuple () gives the row [""], and a blob in which
\* no tuple is opened gives no row.
C20_RowWidthCountsCommas ==
    tpc = "done"
        => /\ \A j \in 1..Len(rows) : Len(rows[j]) >= 1
           /\ \A c \in TopLevelCloses(blob) :
                  /\ RowOf(blob, c) \in 1..Len(rows)
                  /\ Len(rows[RowOf(blob, c)])
                         = 1 + Cardinality(FieldCommas(blob, OpenOf(blob, c), c))
           /\ blob = <<"(", ")">> => rows = << <<(<<>>)>> >>
           /\ TopLevelOpens(blob) = {} => rows = <<>>

\* A tuple with a comma at depth 2 and a comma inside no tuple.
C20_Witness ==
    /\ blob = BlobNested
    /\ tpc = "done"
    /\ rows = << <<(<<"1">>), Chars("(2,3)")>>, <<(<<"4">>)>> >>
    /\ Cardinality(FieldCommas(blob, 0, 8)) = 1

====
